---- MODULE Spec2Model ----
(***************************************************************************)
(* Day 11 of Gredelston/advent-of-code-2022: the monkey item-passing       *)
(* simulation of src/day11/main.py, as a state machine.                    *)
(*                                                                         *)
(* One behaviour is one run of the interpreter: part1 is called up to      *)
(* MaxRuns times on the same input file (src/day11/main.py:218-223 calls   *)
(* it twice).  Text captured by the regular expressions is kept as a       *)
(* sequence of characters and converted where the code converts it.        *)
(*                                                                         *)
(* Further specifications, each with its own initial states and actions,   *)
(* follow the day 11 properties: the interpreter of one block of text      *)
(* (InterpreterSpec), one inspection on worry levels of any size           *)
(* (InspectionSpec), and the programs of day 4 (Day04Spec), day 5          *)
(* (Day05Spec), day 6 (Day06Spec) and day 1 (Day1Spec).                    *)
(***************************************************************************)
EXTENDS Integers, Sequences, FiniteSets, TLC

(***************************************************************************)
(* Bounds of the model.                                                    *)
(***************************************************************************)
MaxMonkeys == 2        \* generated clubs have 0..MaxMonkeys monkeys
MaxItems == 2          \* generated starting lists have 1..MaxItems items
MaxRuns == 2           \* calls of part1 in one process
MaxQueue == 24         \* longest list of items a monkey may reach
MaxWorry == 1000000    \* largest value an operation may produce

(***************************************************************************)
(* Text and numbers.                                                       *)
(***************************************************************************)
Digits == <<"0", "1", "2", "3", "4", "5", "6", "7", "8", "9">>

Old == <<"o", "l", "d">>

DigitValue(c) == (CHOOSE k \in 1..10 : Digits[k] = c) - 1

RECURSIVE int(_)
\* int('19') = 19: the decimal value of a run of digits
int(s) ==
    IF Len(s) = 0 THEN 0
    ELSE 10 * int(SubSeq(s, 1, Len(s) - 1)) + DigitValue(s[Len(s)])

RECURSIVE str(_)
\* str(19) = '19'
str(n) ==
    IF n < 10 THEN <<Digits[n + 1]>>
    ELSE Append(str(n \div 10), Digits[(n % 10) + 1])

RECURSIVE sum(_)
\* sum(a_list)
sum(numbers) ==
    IF numbers = <<>> THEN 0 ELSE Head(numbers) + sum(Tail(numbers))

(***************************************************************************)
(* Inputs: the chunks load_file_chunks returns.  A chunk is the six        *)
(* captured fields of one block.                                           *)
(***************************************************************************)
Chunk(id, items, operator, operand, divisor, if_true, if_false) ==
    [id |-> id, items |-> items, operator |-> operator, operand |-> operand,
     divisor |-> divisor, if_true |-> if_true, if_false |-> if_false]

\* the sample of the puzzle statement
SampleChunks ==
    << Chunk(str(0), <<str(79), str(98)>>, "*", str(19), str(23), str(2), str(3)),
       Chunk(str(1), <<str(54), str(65), str(75), str(74)>>, "+", str(6), str(19), str(2), str(0)),
       Chunk(str(2), <<str(79), str(60), str(97)>>, "*", Old, str(13), str(1), str(3)),
       Chunk(str(3), <<str(74)>>, "+", str(3), str(17), str(0), str(1)) >>

\* two pairs of monkeys that throw to each other and do the same work
PairsChunks ==
    << Chunk(str(0), <<str(1)>>, "*", str(3), str(2), str(1), str(1)),
       Chunk(str(1), <<str(1)>>, "*", str(3), str(2), str(0), str(0)),
       Chunk(str(2), <<str(1)>>, "*", str(3), str(2), str(3), str(3)),
       Chunk(str(3), <<str(1)>>, "*", str(3), str(2), str(2), str(2)) >>

StartWorries == {str(1), str(8)}

StartLists == UNION {[1..n -> StartWorries] : n \in 1..MaxItems}

GenericOps == {<<"+", Old>>, <<"*", str(3)>>}

GenericDivisors == {str(0), str(2)}

\* A generated club of n monkeys: every monkey starts with the list start,
\* the operation op and the divisor d; monkey p throws to t and f (n is one
\* past the last index), every other monkey i to its right neighbour when
\* the test passes and to its left neighbour otherwise.
GenericChunks(n, p, t, f, start, op, d) ==
    [k \in 1..n |->
        IF k - 1 = p
        THEN Chunk(str(k - 1), start, op[1], op[2], d, str(t), str(f))
        ELSE Chunk(str(k - 1), start, op[1], op[2], d,
                   str(k % n), str((k + n - 2) % n))]

Inputs ==
    {SampleChunks, PairsChunks, <<>>} \cup
    {GenericChunks(n, p, t, f, start, op, d) :
        n \in 1..MaxMonkeys, p \in 0..(MaxMonkeys - 1), t \in 0..MaxMonkeys,
        f \in 0..MaxMonkeys, start \in StartLists, op \in GenericOps,
        d \in GenericDivisors}


(***************************************************************************)
(* State.                                                                  *)
(***************************************************************************)
VARIABLES
    file_chunks,    \* what load_file_chunks returns, the same at every call
    monkeys,        \* the list object every MonkeyClub() holds as _monkeys
    club,           \* the MonkeyClub object of the running part1: 1, 2, ...
    pc,             \* "main", "part1", "execute_round", "raised"
    round_number,   \* the loop variable of part1
    turn,           \* position in monkeys of the monkey whose turn it is
    pos,            \* position of Monkey.execute_round's iterator in _items
    err,            \* the exception that ended the process, or "none"
    results,        \* what each finished part1 returned
    order,          \* history: the monkeys called so far in this round
    executed,       \* history: rounds begun by this part1
    clock,          \* history: rounds begun in the process
    call,           \* history: the monkey's list length and count when its
                    \* execute_round was called
    begun           \* history: the items held and the inspections counted
                    \* over all monkeys when the round was begun

vars == <<file_chunks, monkeys, club, pc, round_number, turn, pos, err,
          results, order, executed, clock, call, begun>>

\* The state of the repository's other programs and of the functions that
\* are run on their own; each is a record that holds Idle while another
\* program runs.
VARIABLES
    interpreter,    \* Monkey(file_chunk, ...) on one block of six lines
    inspection,     \* Monkey._inspect on worry levels of any size
    day04,          \* src/day04/main.py
    day05,          \* src/day05/main.py
    day06,          \* src/day06/main.py
    day1            \* src/day1/main.py

others == <<interpreter, inspection, day04, day05, day06, day1>>

Idle == [pc |-> "idle"]

(***************************************************************************)
(* The parsed monkey (Monkey.__init__).                                    *)
(***************************************************************************)
\* Item(element): a starting item; thrower and thrown_in are history
StartingItem(element) == [worry |-> int(element), thrower |-> 0, thrown_in |-> 0]

get_starting_items(chunk) ==
    [k \in 1..Len(chunk.items) |-> StartingItem(chunk.items[k])]

\* _get_id returns the captured text, the destinations go through MonkeyID()
MonkeyInit(chunk, monkey_club) ==
    [monkey_club |-> monkey_club,
     inspections_count |-> 0,
     id |-> chunk.id,
     items |-> get_starting_items(chunk),
     operator |-> chunk.operator,
     operand |-> chunk.operand,
     divisor |-> int(chunk.divisor),
     true_destination |-> int(chunk.if_true),
     false_destination |-> int(chunk.if_false)]

\* MonkeyClub(): monkeys=[] is evaluated once, when the class is defined, so
\* the club created by every call holds the same list object
MonkeyClubInit(shared) == shared

\* add_monkey(Monkey(chunk, monkey_club)) for every chunk
initialize_monkey_club(shared, chunks, monkey_club) ==
    MonkeyClubInit(shared) \o
        [k \in 1..Len(chunks) |-> MonkeyInit(chunks[k], monkey_club)]

(***************************************************************************)
(* One inspection (Monkey._inspect).                                       *)
(***************************************************************************)
second_operand(m, old_value) ==
    IF m.operand = Old THEN old_value ELSE int(m.operand)

\* TRUE when the operation's result is within the model's range
WithinRange(m, old_value) ==
    IF m.operator = "+"
    THEN old_value + second_operand(m, old_value) <= MaxWorry
    ELSE second_operand(m, old_value) = 0
         \/ old_value <= MaxWorry \div second_operand(m, old_value)

operation_added(m, old_value) == old_value + second_operand(m, old_value)

operation(m, old_value) ==
    IF m.operator = "+"
    THEN old_value + second_operand(m, old_value)
    ELSE old_value * second_operand(m, old_value)

Relief_by_four(item) == item \div 4

\* Item(item/3): a float division truncated by int(); for an item below
\* 3 * 2^52 the truncated quotient is the floor, and MaxWorry is below that
\* (true_divide_by_3 follows the division for items of any size)
Relief(item) == item \div 3

\* item % divisor == 0, for divisor # 0
item_test(m, item) == item % m.divisor = 0

Destination(m, test_passed) ==
    IF test_passed THEN m.true_destination ELSE m.false_destination

list_index_clamped(n, index) ==
    IF 0 <= index /\ index < n THEN index + 1
    ELSE IF index < 0 /\ n > 0 THEN (IF -index <= n THEN n + index + 1 ELSE 1)
    ELSE 0

\* a_list[index] of a list of n elements: the position read, counted from
\* 1, or 0 where Python raises IndexError
list_index(n, index) ==
    IF 0 <= index /\ index < n THEN index + 1
    ELSE IF index < 0 /\ -index <= n THEN n + index + 1
    ELSE 0

get_monkey_wrapped(ms, index) ==
    IF Len(ms) = 0 THEN 0 ELSE (index % Len(ms)) + 1

\* self._monkeys[index]
get_monkey(ms, index) == list_index(Len(ms), index)

add_item_front(ms, to, item) ==
    [ms EXCEPT ![to].items = <<item>> \o @]

\* self._items.append(item)
add_item(ms, to, item) ==
    [ms EXCEPT ![to].items = Append(@, item)]

Counted(ms, who) ==
    [ms EXCEPT ![who].inspections_count = @ + 1]


(***************************************************************************)
(* The score (MonkeyClub.get_monkey_business).                             *)
(***************************************************************************)
inspections_per_monkey(ms) == [k \in 1..Len(ms) |-> ms[k].inspections_count]

RECURSIVE insert(_, _)
insert(sorted, x) ==
    IF Len(sorted) = 0 THEN <<x>>
    ELSE IF x >= sorted[Len(sorted)] THEN Append(sorted, x)
    ELSE Append(insert(SubSeq(sorted, 1, Len(sorted) - 1), x), sorted[Len(sorted)])

sort_none(s) == s

RECURSIVE sort(_)
\* list.sort(): ascending
sort(s) ==
    IF Len(s) = 0 THEN <<>>
    ELSE insert(sort(SubSeq(s, 1, Len(s) - 1)), s[Len(s)])

\* inspections_per_monkey[-1] * inspections_per_monkey[-2] of the sorted
\* list; -1 stands for the IndexError of a list shorter than 2
get_monkey_business(ms) ==
    LET sorted == sort(inspections_per_monkey(ms))
        last == list_index(Len(sorted), -1)
        before == list_index(Len(sorted), -2)
    IN  IF last = 0 \/ before = 0 THEN -1 ELSE sorted[last] * sorted[before]

(***************************************************************************)
(* Actions.                                                                *)
(***************************************************************************)
LastRound == 20        \* range(1, 21)

\* the items held over all monkeys of the list
Held(ms) == sum([k \in 1..Len(ms) |-> Len(ms[k].items)])

\* the items held and the inspections counted, over all monkeys
Tally(ms) == [held |-> Held(ms), count |-> sum(inspections_per_monkey(ms))]

Init ==
    /\ file_chunks \in Inputs
    /\ monkeys = <<>>
    /\ club = 0
    /\ pc = "main"
    /\ round_number = 0
    /\ turn = 0
    /\ pos = 0
    /\ err = "none"
    /\ results = <<>>
    /\ order = <<>>
    /\ executed = 0
    /\ clock = 0
    /\ call = [held |-> 0, count |-> 0]
    /\ begun = [held |-> 0, count |-> 0]
    /\ interpreter = Idle
    /\ inspection = Idle
    /\ day04 = Idle
    /\ day05 = Idle
    /\ day06 = Idle
    /\ day1 = Idle

\* part1 up to the first round: load_file_chunks, initialize_monkey_club
Part1 ==
    /\ pc = "main"
    /\ club < MaxRuns
    /\ club' = club + 1
    /\ monkeys' = initialize_monkey_club(monkeys, file_chunks, club + 1)
    /\ round_number' = 1
    /\ executed' = 0
    /\ pc' = "part1"
    /\ UNCHANGED <<file_chunks, turn, pos, err, results, order, clock, call,
                   begun>>
    /\ UNCHANGED others

\* for monkey in self._monkeys: where the loop starts and how it advances
first_monkey(ms) == 1

next_monkey_skipping(ms, current) == current + 2

next_monkey(ms, current) == current + 1

Called(m) == [held |-> Len(m.items), count |-> m.inspections_count]

\* MonkeyClub.execute_round up to the first monkey's first item
ClubExecuteRound ==
    /\ pc = "part1"
    /\ round_number <= LastRound
    /\ executed' = executed + 1
    /\ clock' = clock + 1
    /\ begun' = Tally(monkeys)
    /\ IF Len(monkeys) = 0
       THEN /\ round_number' = round_number + 1
            /\ order' = <<>>
            /\ UNCHANGED <<pc, turn, pos, call>>
       ELSE /\ pc' = "execute_round"
            /\ turn' = first_monkey(monkeys)
            /\ pos' = 1
            /\ order' = <<first_monkey(monkeys)>>
            /\ call' = Called(monkeys[first_monkey(monkeys)])
            /\ UNCHANGED round_number
    /\ UNCHANGED <<file_chunks, monkeys, club, err, results>>
    /\ UNCHANGED others

Thrown(worry) == [worry |-> worry, thrower |-> turn, thrown_in |-> clock]

\* Monkey._inspect on the item under the iterator of Monkey.execute_round
Inspect ==
    /\ pc = "execute_round"
    /\ pos <= Len(monkeys[turn].items)
    /\ WithinRange(monkeys[turn], monkeys[turn].items[pos].worry)
    /\ LET m == monkeys[turn]
           counted == Counted(monkeys, turn)
           item == Relief(operation(m, m.items[pos].worry))
       IN  IF m.divisor = 0
           THEN /\ monkeys' = counted
                /\ pc' = "raised"
                /\ err' = "ZeroDivisionError"
                /\ UNCHANGED pos
           ELSE LET to == get_monkey(counted, Destination(m, item_test(m, item)))
                IN  IF to = 0
                    THEN /\ monkeys' = counted
                         /\ pc' = "raised"
                         /\ err' = "IndexError"
                         /\ UNCHANGED pos
                    ELSE /\ Len(monkeys[to].items) < MaxQueue
                         /\ monkeys' = add_item(counted, to, Thrown(item))
                         /\ pos' = pos + 1
                         /\ UNCHANGED <<pc, err>>
    /\ UNCHANGED <<file_chunks, club, round_number, turn, results, order,
                   executed, clock, call, begun>>
    /\ UNCHANGED others

ClearItems_kept(ms, who) == ms

ClearItems_counted(ms, who) ==
    [ms EXCEPT ![who].items = <<>>, ![who].inspections_count = @ + 1]

ClearItems(ms, who) == [ms EXCEPT ![who].items = <<>>]

\* the end of Monkey.execute_round: the iterator is exhausted, the list is
\* replaced, and MonkeyClub.execute_round goes to the next monkey or returns
FinishTurn ==
    /\ pc = "execute_round"
    /\ pos > Len(monkeys[turn].items)
    /\ monkeys' = ClearItems(monkeys, turn)
    /\ IF next_monkey(monkeys, turn) <= Len(monkeys)
       THEN /\ turn' = next_monkey(monkeys, turn)
            /\ pos' = 1
            /\ order' = Append(order, turn')
            /\ call' = Called(monkeys'[turn'])
            /\ UNCHANGED <<pc, round_number>>
       ELSE /\ pc' = "part1"
            /\ round_number' = round_number + 1
            /\ UNCHANGED <<turn, pos, order, call>>
    /\ UNCHANGED <<file_chunks, club, err, results, executed, clock, begun>>
    /\ UNCHANGED others

\* return monkey_club.get_monkey_business()
GetMonkeyBusiness ==
    /\ pc = "part1"
    /\ round_number > LastRound
    /\ IF get_monkey_business(monkeys) = -1
       THEN /\ pc' = "raised"
            /\ err' = "IndexError"
            /\ UNCHANGED results
       ELSE /\ pc' = "main"
            /\ results' = Append(results,
                    [inspections |-> inspections_per_monkey(monkeys),
                     business |-> get_monkey_business(monkeys)])
            /\ UNCHANGED err
    /\ UNCHANGED <<file_chunks, monkeys, club, round_number, turn, pos, order,
                   executed, clock, call, begun>>
    /\ UNCHANGED others

Next ==
    \/ Part1
    \/ ClubExecuteRound
    \/ Inspect
    \/ FinishTurn
    \/ GetMonkeyBusiness

Spec == Init /\ [][Next]_<<vars, others>>


(***************************************************************************)
(* Vocabulary of the properties.                                           *)
(***************************************************************************)
Positions == 1..Len(monkeys)

Queue(k) == monkeys[k].items

\* every destination of every monkey is an index of the list
ValidDestinations ==
    \A k \in Positions :
        /\ monkeys[k].true_destination \in 0..(Len(monkeys) - 1)
        /\ monkeys[k].false_destination \in 0..(Len(monkeys) - 1)

\* a round has run to its end and the next has not begun
RoundEnded == pc \in {"part1", "main"} /\ executed > 0

\* the iterator of the running Monkey.execute_round stands on an item
Inspecting == pc = "execute_round" /\ pos <= Len(Queue(turn))

\* part1 has returned the score of the club it built
Returned == pc = "main" /\ club > 0 /\ Len(results) = club

(***************************************************************************)
(* C1: building a club from the same input and running 20 rounds, done     *)
(* twice in the same process, gives the same inspection counts and the     *)
(* same monkey business both times.                                        *)
(***************************************************************************)
C1_Determinism ==
    Len(results) >= 2 => results[2] = results[1]

(***************************************************************************)
(* C2: the club of the four sample monkeys has, after 20 rounds, the       *)
(* inspection counts [101, 95, 7, 105] and the monkey business 10605.      *)
(***************************************************************************)
C2_Sample ==
    (file_chunks = SampleChunks /\ Len(monkeys) = 4 /\ RoundEnded /\ executed = 20)
        => /\ inspections_per_monkey(monkeys) = <<101, 95, 7, 105>>
           /\ get_monkey_business(monkeys) = 10605
           /\ (Returned => results[club].business = 10605)

C2_Witness ==
    /\ file_chunks = SampleChunks
    /\ Len(monkeys) = 4
    /\ Returned
    /\ executed = 20


(***************************************************************************)
(* C3: when Monkey.execute_round returns, in a club whose destinations are *)
(* all valid (a monkey's own index among them), the monkey's queue is      *)
(* empty and its inspections_count has grown by exactly the number of      *)
(* items it held when the call started.                                    *)
(***************************************************************************)
C3_TurnEffect ==
    [][(FinishTurn /\ ValidDestinations)
        => /\ monkeys'[turn].items = <<>>
           /\ monkeys'[turn].inspections_count = call.count + call.held]_vars

(***************************************************************************)
(* C4: an item thrown by a monkey at a lower index to one at a higher      *)
(* index is inspected by the receiver in the round it was thrown in, none  *)
(* is left over when the round ends; an item thrown by a higher index to a *)
(* lower one is inspected by the receiver in the following round.          *)
(***************************************************************************)
C4_RoundOrder ==
    /\ Inspecting =>
        LET item == Queue(turn)[pos]
        IN  /\ item.thrower \in 1..(turn - 1) => item.thrown_in = clock
            /\ item.thrower > turn => item.thrown_in = clock - 1
    /\ RoundEnded =>
        \A k \in Positions : \A i \in 1..Len(Queue(k)) :
            Queue(k)[i].thrower \notin 1..(k - 1)

C4_Witness ==
    /\ Inspecting
    /\ Queue(turn)[pos].thrower \in 1..(turn - 1)
    /\ Queue(turn)[pos].thrown_in = clock
    /\ \E k \in 1..(turn - 1) : \E i \in 1..Len(Queue(k)) :
        Queue(k)[i].thrower > k /\ Queue(k)[i].thrown_in = clock

(***************************************************************************)
(* C5: at the end of every round every queue holds only items thrown       *)
(* during that round by a monkey whose turn came after the holder's own;   *)
(* the last monkey's queue is empty.                                       *)
(***************************************************************************)
C5_QueuesAtRoundEnd ==
    RoundEnded =>
        /\ \A k \in Positions : \A i \in 1..Len(Queue(k)) :
            /\ Queue(k)[i].thrown_in = clock
            /\ Queue(k)[i].thrower > k
        /\ Len(monkeys) > 0 => Queue(Len(monkeys)) = <<>>

C5_Witness ==
    /\ RoundEnded
    /\ \E k \in Positions : Queue(k) # <<>>
    /\ \E k \in Positions : Queue(k) = <<>>

(***************************************************************************)
(* C6: in every club built during the process each monkey's id is its      *)
(* position in the club's list and the monkey belongs to that club, so     *)
(* get_monkey(d) of a destination d is the monkey with id d of the         *)
(* thrower's own club.                                                     *)
(***************************************************************************)
C6_IdIsPosition ==
    \A k \in Positions :
        /\ int(monkeys[k].id) = k - 1
        /\ monkeys[k].monkey_club = club
        /\ \A d \in {monkeys[k].true_destination, monkeys[k].false_destination} :
            get_monkey(monkeys, d) # 0 =>
                /\ int(monkeys[get_monkey(monkeys, d)].id) = d
                /\ monkeys[get_monkey(monkeys, d)].monkey_club = monkeys[k].monkey_club

(***************************************************************************)
(* C7: a round calls Monkey.execute_round on every monkey exactly once, in *)
(* ascending index order, and part1 has run exactly 20 rounds when it      *)
(* returns the score.                                                      *)
(***************************************************************************)
C7_RoundSchedule ==
    /\ pc = "execute_round" => order = [k \in 1..turn |-> k]
    /\ (RoundEnded /\ Len(monkeys) > 0) => order = [k \in Positions |-> k]
    /\ pc = "part1" => executed = round_number - 1
    /\ Returned => executed = 20

C7_Witness ==
    /\ Returned
    /\ Len(monkeys) >= 2
    /\ order = [k \in Positions |-> k]
    /\ executed = 20

(***************************************************************************)
(* C8: in a club whose destinations are all valid every                    *)
(* Monkey.execute_round terminates.  A turn that terminates never stands,  *)
(* after an inspection, before the same worry levels as before it: what    *)
(* the loop does next depends on nothing else.                             *)
(***************************************************************************)
Remaining ==
    [i \in 1..(Len(Queue(turn)) - pos + 1) |-> Queue(turn)[pos + i - 1].worry]

C8_TurnsTerminate ==
    [][(Inspect /\ ValidDestinations /\ pc' = "execute_round")
        => Remaining' # Remaining]_vars

(***************************************************************************)
(* C9: an inspection whose selected destination is outside the list fails  *)
(* there with an IndexError: nothing is thrown, and once an exception is   *)
(* raised no further step is taken.                                        *)
(***************************************************************************)
SelectedDestination ==
    LET m == monkeys[turn]
        worry == (IF m.operator = "+"
                  THEN Queue(turn)[pos].worry + second_operand(m, Queue(turn)[pos].worry)
                  ELSE Queue(turn)[pos].worry * second_operand(m, Queue(turn)[pos].worry))
                 \div 3
    IN  IF worry % m.divisor = 0 THEN m.true_destination ELSE m.false_destination

C9_LookupError ==
    [][/\ pc # "raised"
       /\ (Inspecting /\ monkeys[turn].divisor # 0
             /\ SelectedDestination >= Len(monkeys))
            => /\ pc' = "raised"
               /\ err' = "IndexError"
               /\ \A k \in Positions : monkeys'[k].items = monkeys[k].items]_vars

C9_Witness ==
    /\ pc = "raised"
    /\ err = "IndexError"
    /\ turn < Len(monkeys)
    /\ pos < Len(Queue(turn))
    /\ monkeys[turn].inspections_count = call.count + 1

(***************************************************************************)
(* C10: for a club of at least two monkeys get_monkey_business returns the *)
(* product of the two largest inspection counts, two monkeys tied for the  *)
(* maximum counting both, and changes no queue and no count.               *)
(***************************************************************************)
TwoLargest(counts) ==
    LET i == CHOOSE i \in DOMAIN counts : \A l \in DOMAIN counts : counts[i] >= counts[l]
        rest == DOMAIN counts \ {i}
        j == CHOOSE j \in rest : \A l \in rest : counts[j] >= counts[l]
    IN  counts[i] * counts[j]

C10_MonkeyBusiness ==
    [][(GetMonkeyBusiness /\ Len(monkeys) >= 2)
        => /\ pc' = "main"
           /\ results' = Append(results, results'[Len(results')])
           /\ results'[Len(results')].business =
                TwoLargest([k \in Positions |-> monkeys[k].inspections_count])
           /\ monkeys' = monkeys]_vars

C10_Witness ==
    /\ Returned
    /\ Len(monkeys) >= 2
    /\ \E i, j \in Positions :
        /\ i # j
        /\ monkeys[i].inspections_count = monkeys[j].inspections_count
        /\ \A l \in Positions : monkeys[l].inspections_count <= monkeys[i].inspections_count
        /\ monkeys[i].inspections_count > 0
        /\ results[club].business = monkeys[i].inspections_count * monkeys[j].inspections_count

(***************************************************************************)
(* C11: get_monkey_business fails with an error, and returns no number,    *)
(* whenever the club holds fewer than 2 monkeys: the sorted list of        *)
(* counts has no element at [-1] or none at [-2], and part1 ends in the    *)
(* IndexError without a result.                                            *)
(***************************************************************************)
FewerThanTwo == Len(monkeys) < 2

C11_TooFewMonkeys ==
    [][/\ FewerThanTwo => get_monkey_business(monkeys) = -1
       /\ (FewerThanTwo /\ pc = "part1" /\ round_number > LastRound)
              => /\ pc' = "raised"
                 /\ err' = "IndexError"
                 /\ results' = results]_vars

C11_Witness ==
    /\ FewerThanTwo
    /\ executed = LastRound
    /\ pc = "raised"
    /\ err = "IndexError"
    /\ results = <<>>

(***************************************************************************)
(* C13: the monkey that starts with [79, 98], new = old * 19, divisible by *)
(* 23, true -> 2, false -> 3 ends its turn with an empty queue and         *)
(* inspections_count = 2; 500 and 620, in that order, are each appended to *)
(* monkey 2's queue when divisible by 23 and to monkey 3's otherwise, and  *)
(* no other monkey's queue changes.                                        *)
(***************************************************************************)
Worries(k) == [i \in 1..Len(Queue(k)) |-> Queue(k)[i].worry]

StartingWorries(k) ==
    [i \in 1..Len(SampleChunks[k].items) |-> int(SampleChunks[k].items[i])]

\* the first turn of the first round of the sample club has just ended
AfterFirstTurn ==
    /\ file_chunks = SampleChunks
    /\ club = 1
    /\ executed = 1
    /\ pc = "execute_round"
    /\ turn = 2
    /\ pos = 1

ReceivedBy(k) ==
    LET GoesTo(v) == IF v % 23 = 0 THEN k = 3 ELSE k = 4
    IN  SelectSeq(<<500, 620>>, GoesTo)

C13_ExampleTurn ==
    AfterFirstTurn =>
        /\ Queue(1) = <<>>
        /\ monkeys[1].inspections_count = 2
        /\ \A k \in 2..4 : Worries(k) = StartingWorries(k) \o ReceivedBy(k)

C13_Witness ==
    /\ AfterFirstTurn
    /\ Worries(4) = <<74, 500, 620>>
    /\ monkeys[1].inspections_count = 2

(***************************************************************************)
(* C14: a monkey whose queue is empty when its turn starts performs zero   *)
(* inspections: the only step of that turn is its end, which leaves the    *)
(* monkey's count and empty queue, and every other monkey's queue and      *)
(* count, as they were.                                                    *)
(***************************************************************************)
EmptyTurn == pc = "execute_round" /\ call.held = 0

C14_EmptyTurn ==
    [][EmptyTurn =>
          /\ ~Inspecting
          /\ Queue(turn) = <<>>
          /\ monkeys[turn].inspections_count = call.count
          /\ monkeys' = monkeys
          /\ pc' # "raised"]_vars

C14_Witness ==
    /\ EmptyTurn
    /\ monkeys[turn].inspections_count > 0
    /\ \E k \in Positions : Queue(k) # <<>>

(***************************************************************************)
(* C20: throws keep FIFO order.  A monkey inspects its items from head to  *)
(* tail and every thrown item is appended at the tail of the destination's *)
(* queue, so items thrown to one destination during a round sit there in   *)
(* the order thrown, behind what the destination already held.             *)
(***************************************************************************)
\* item a was put in its queue no later than item b, as far as the round
\* and the thrower's place in the round tell
NoLater(a, b) ==
    \/ a.thrown_in < b.thrown_in
    \/ a.thrown_in = b.thrown_in /\ a.thrower <= b.thrower

InThrowOrder(queue) ==
    \A i, j \in 1..Len(queue) : i < j => NoLater(queue[i], queue[j])

C20_ThrowOrder ==
    [][(Inspecting /\ pc' = "execute_round") =>
          /\ pos' = pos + 1
          /\ \E to \in Positions :
                /\ Len(Queue(to)') = Len(Queue(to)) + 1
                /\ SubSeq(Queue(to)', 1, Len(Queue(to))) = Queue(to)
                /\ Queue(to)'[Len(Queue(to)')].thrower = turn
                /\ Queue(to)'[Len(Queue(to)')].thrown_in = clock
                /\ \A k \in Positions \ {to} : Queue(k)' = Queue(k)
          /\ \A k \in Positions : InThrowOrder(Queue(k)')]_vars

C20_Witness ==
    \E k \in Positions :
        /\ Len(Queue(k)) >= 3
        /\ Queue(k)[1].thrown_in < Queue(k)[2].thrown_in
        /\ Queue(k)[2].thrown_in = Queue(k)[3].thrown_in
        /\ Queue(k)[2].thrower = Queue(k)[3].thrower
        /\ Queue(k)[2].worry # Queue(k)[3].worry

(***************************************************************************)
(* The text of a block (ChunkToMonkeyInterpreter).  A line is a sequence   *)
(* of characters; a match is followed position by position, 0 standing for *)
(* no match, and None for the None re.match returns.                       *)
(***************************************************************************)
MonkeyText == <<"M", "o", "n", "k", "e", "y", " ">>

StartingItemsText ==
    <<"S", "t", "a", "r", "t", "i", "n", "g", " ", "i", "t", "e", "m", "s",
      ":", " ">>

OperationText ==
    <<"O", "p", "e", "r", "a", "t", "i", "o", "n", ":", " ", "n", "e", "w",
      " ", "=", " ", "o", "l", "d", " ">>

TestText ==
    <<"T", "e", "s", "t", ":", " ", "d", "i", "v", "i", "s", "i", "b", "l",
      "e", " ", "b", "y", " ">>

IfTrueText ==
    <<"I", "f", " ", "t", "r", "u", "e", ":", " ", "t", "h", "r", "o", "w",
      " ", "t", "o", " ", "m", "o", "n", "k", "e", "y", " ">>

IfFalseText ==
    <<"I", "f", " ", "f", "a", "l", "s", "e", ":", " ", "t", "h", "r", "o",
      "w", " ", "t", "o", " ", "m", "o", "n", "k", "e", "y", " ">>

Separator == <<",", " ">>

Trailing == <<" ", "x">>

None == <<>>

IsDigit(c) == \E k \in 1..10 : Digits[k] = c

IsSpace(c) == c \in {" ", "\t"}

\* the position after text, when the line holds text at from
Literal(line, from, text) ==
    IF /\ from > 0
       /\ from + Len(text) - 1 <= Len(line)
       /\ SubSeq(line, from, from + Len(text) - 1) = text
    THEN from + Len(text)
    ELSE 0

RECURSIVE Run(_, _)
\* \d*: the position after the longest run of digits at from
Run(line, from) ==
    IF from <= Len(line) /\ IsDigit(line[from]) THEN Run(line, from + 1)
    ELSE from

\* \d+
Number(line, from) ==
    IF from > 0 /\ Run(line, from) > from THEN Run(line, from) ELSE 0

RECURSIVE Spaces(_, _)
\* ^\s*
Spaces(line, from) ==
    IF from <= Len(line) /\ IsSpace(line[from]) THEN Spaces(line, from + 1)
    ELSE from

\* $: the end of the line, or the newline that ends it
AtEnd(line, from) ==
    /\ from > 0
    /\ \/ from = Len(line) + 1
       \/ from = Len(line) /\ line[from] = "\n"

Group(line, from, to) == SubSeq(line, from, to - 1)

\* re.match(r'Monkey (\d+):$', line): group(1)
match_id(line) ==
    LET a == Literal(line, 1, MonkeyText)
        b == Number(line, a)
        c == Literal(line, b, <<":">>)
    IN  IF AtEnd(line, c) THEN Group(line, a, b) ELSE None

RECURSIVE MoreItems(_, _)
\* (, \d+)*
MoreItems(line, from) ==
    LET next == Number(line, Literal(line, from, Separator))
    IN  IF next = 0 THEN from ELSE MoreItems(line, next)

\* re.match(r'^\s*Starting items: (\d+(, \d+)*)$', line): group(1)
match_starting_items(line) ==
    LET a == Literal(line, Spaces(line, 1), StartingItemsText)
        b == Number(line, a)
        c == IF b = 0 THEN 0 ELSE MoreItems(line, b)
    IN  IF AtEnd(line, c) THEN Group(line, a, c) ELSE None

RECURSIVE split(_)
\* raw_items.split(', ')
split(text) ==
    LET first == Run(text, 1)
    IN  IF Literal(text, first, Separator) = 0 THEN <<text>>
        ELSE <<Group(text, 1, first)>>
                 \o split(SubSeq(text, first + Len(Separator), Len(text)))

\* re.match(r'^\s*Operation: new = old ([+*]) ((old)|(\d+))$', line):
\* <<group(1), group(2)>>
match_operation(line) ==
    LET a == Literal(line, Spaces(line, 1), OperationText)
        b == IF a > 0 /\ a <= Len(line) /\ line[a] \in {"+", "*"}
             THEN Literal(line, a + 1, <<" ">>)
             ELSE 0
        c == Literal(line, b, Old)
        d == Number(line, b)
    IN  IF AtEnd(line, c) THEN <<line[a], Group(line, b, c)>>
        ELSE IF AtEnd(line, d) THEN <<line[a], Group(line, b, d)>>
        ELSE None

\* re.match(r'Test: divisible by (\d+)', line): group(1)
match_test(line) ==
    LET a == Literal(line, 1, TestText)
        b == Number(line, a)
    IN  IF b > 0 THEN Group(line, a, b) ELSE None

\* re.match(r'^\s*If true: throw to monkey (\d+)$', line) and its twin for
\* If false: group(1)
match_destination(line, text) ==
    LET a == Literal(line, Spaces(line, 1), text)
        b == Number(line, a)
    IN  IF AtEnd(line, b) THEN Group(line, a, b) ELSE None

(***************************************************************************)
(* Blocks: a well-formed line and malformed variants of it, for each of    *)
(* the six lines.                                                          *)
(***************************************************************************)
IdLines ==
    { MonkeyText \o str(0) \o <<":">>,
      MonkeyText \o str(0),
      MonkeyText \o <<":">>,
      MonkeyText \o str(0) \o <<":">> \o Trailing }

StartingItemsLines ==
    { StartingItemsText \o str(79) \o Separator \o str(98),
      StartingItemsText \o str(7),
      StartingItemsText \o str(79) \o <<",">> \o str(98),
      StartingItemsText \o str(7) \o Trailing }

OperationLines ==
    { OperationText \o <<"*", " ">> \o str(19),
      OperationText \o <<"+", " ">> \o Old,
      OperationText \o <<"-", " ">> \o str(19),
      OperationText \o <<"*", " ">> \o str(19) \o Trailing }

TestLines ==
    { TestText \o str(23),
      TestText \o str(23) \o Trailing,
      TestText \o <<"x">> }

IfTrueLines ==
    { IfTrueText \o str(0),
      IfTrueText \o str(0) \o Trailing,
      IfFalseText \o str(0) }

IfFalseLines ==
    { IfFalseText \o str(0),
      IfFalseText \o str(0) \o Trailing,
      IfFalseText }

Blocks ==
    { <<a, b, c, d, e, f>> :
        a \in IdLines, b \in StartingItemsLines, c \in OperationLines,
        d \in TestLines, e \in IfTrueLines, f \in IfFalseLines }

(***************************************************************************)
(* Monkey(file_chunk, monkey_club) on the block of a one-block file, one   *)
(* action for each call of Monkey.__init__, then add_monkey and the start  *)
(* of part1's loop.                                                        *)
(***************************************************************************)
Day11Idle ==
    /\ file_chunks = <<>>
    /\ monkeys = <<>>
    /\ club = 0
    /\ pc = "idle"
    /\ round_number = 0
    /\ turn = 0
    /\ pos = 0
    /\ err = "none"
    /\ results = <<>>
    /\ order = <<>>
    /\ executed = 0
    /\ clock = 0
    /\ call = [held |-> 0, count |-> 0]
    /\ begun = [held |-> 0, count |-> 0]

InterpreterInit ==
    /\ Day11Idle
    /\ interpreter \in
          { [pc |-> "_get_id", file_chunk |-> block, err |-> "none",
             chunk |-> Chunk(None, None, None, None, None, None, None),
             club |-> <<>>] : block \in Blocks }
    /\ inspection = Idle
    /\ day04 = Idle
    /\ day05 = Idle
    /\ day06 = Idle
    /\ day1 = Idle

\* what a call that found m does next, and what m.group does when m is None
Interpreted(m, field, next, error) ==
    IF m = None
    THEN interpreter' = [interpreter EXCEPT !.pc = "raised", !.err = error]
    ELSE interpreter' = [interpreter EXCEPT !.pc = next, !.chunk[field] = m]

GetId ==
    /\ interpreter.pc = "_get_id"
    /\ Interpreted(match_id(interpreter.file_chunk[1]), "id",
                   "_get_starting_items", "AttributeError")
    /\ UNCHANGED <<vars, inspection, day04, day05, day06, day1>>

GetStartingItems ==
    /\ interpreter.pc = "_get_starting_items"
    /\ LET m == match_starting_items(interpreter.file_chunk[2])
       IN  Interpreted(IF m = None THEN None ELSE split(m), "items",
                       "_get_operation", "AssertionError")
    /\ UNCHANGED <<vars, inspection, day04, day05, day06, day1>>

GetOperation ==
    /\ interpreter.pc = "_get_operation"
    /\ LET m == match_operation(interpreter.file_chunk[3])
       IN  IF m = None
           THEN interpreter' = [interpreter EXCEPT !.pc = "raised",
                                                   !.err = "AttributeError"]
           ELSE interpreter' = [interpreter EXCEPT !.pc = "_get_test",
                                                   !.chunk.operator = m[1],
                                                   !.chunk.operand = m[2]]
    /\ UNCHANGED <<vars, inspection, day04, day05, day06, day1>>

GetTest ==
    /\ interpreter.pc = "_get_test"
    /\ Interpreted(match_test(interpreter.file_chunk[4]), "divisor",
                   "_get_if_true_destination", "AttributeError")
    /\ UNCHANGED <<vars, inspection, day04, day05, day06, day1>>

GetIfTrueDestination ==
    /\ interpreter.pc = "_get_if_true_destination"
    /\ Interpreted(match_destination(interpreter.file_chunk[5], IfTrueText),
                   "if_true", "_get_if_false_destination", "AttributeError")
    /\ UNCHANGED <<vars, inspection, day04, day05, day06, day1>>

GetIfFalseDestination ==
    /\ interpreter.pc = "_get_if_false_destination"
    /\ Interpreted(match_destination(interpreter.file_chunk[6], IfFalseText),
                   "if_false", "add_monkey", "AttributeError")
    /\ UNCHANGED <<vars, inspection, day04, day05, day06, day1>>

\* monkey_club.add_monkey(Monkey(chunk, monkey_club)), after which part1
\* enters its loop of rounds
AddMonkey ==
    /\ interpreter.pc = "add_monkey"
    /\ interpreter' = [interpreter EXCEPT
                          !.pc = "part1",
                          !.club = <<MonkeyInit(interpreter.chunk, 1)>>]
    /\ UNCHANGED <<vars, inspection, day04, day05, day06, day1>>

InterpreterNext ==
    \/ GetId
    \/ GetStartingItems
    \/ GetOperation
    \/ GetTest
    \/ GetIfTrueDestination
    \/ GetIfFalseDestination
    \/ AddMonkey

InterpreterSpec == InterpreterInit /\ [][InterpreterNext]_<<vars, others>>

(***************************************************************************)
(* The grammar of the six lines, as the specification words it.            *)
(***************************************************************************)
Numeral(text) == Len(text) >= 1 /\ \A i \in 1..Len(text) : IsDigit(text[i])

\* the text between a prefix and a suffix of the line
Middle(line, prefix, suffix) ==
    SubSeq(line, Len(prefix) + 1, Len(line) - Len(suffix))

Framed(line, prefix, suffix) ==
    /\ Len(line) >= Len(prefix) + Len(suffix)
    /\ line = prefix \o Middle(line, prefix, suffix) \o suffix

RECURSIVE NumeralList(_)
NumeralList(text) ==
    \/ Numeral(text)
    \/ \E i \in 1..(Len(text) - 3) :
          /\ Numeral(SubSeq(text, 1, i))
          /\ SubSeq(text, i + 1, i + 2) = Separator
          /\ NumeralList(SubSeq(text, i + 3, Len(text)))

Operand(text) == text = Old \/ Numeral(text)

WellFormed(block) ==
    /\ Framed(block[1], MonkeyText, <<":">>)
    /\ Numeral(Middle(block[1], MonkeyText, <<":">>))
    /\ Framed(block[2], StartingItemsText, <<>>)
    /\ NumeralList(Middle(block[2], StartingItemsText, <<>>))
    /\ \E operator \in {<<"+", " ">>, <<"*", " ">>} :
          /\ Framed(block[3], OperationText \o operator, <<>>)
          /\ Operand(Middle(block[3], OperationText \o operator, <<>>))
    /\ Framed(block[4], TestText, <<>>)
    /\ Numeral(Middle(block[4], TestText, <<>>))
    /\ Framed(block[5], IfTrueText, <<>>)
    /\ Numeral(Middle(block[5], IfTrueText, <<>>))
    /\ Framed(block[6], IfFalseText, <<>>)
    /\ Numeral(Middle(block[6], IfFalseText, <<>>))

(***************************************************************************)
(* C12: building a monkey from a six-line block fails with an error        *)
(* whenever one of the six lines does not match its grammar exactly (the   *)
(* test line with nothing after its number): a block with a malformed line *)
(* never yields a Monkey and never lets the simulation start.              *)
(***************************************************************************)
C12_MalformedBlock ==
    ~WellFormed(interpreter.file_chunk) =>
        interpreter.pc \notin {"add_monkey", "part1"}

(***************************************************************************)
(* Worry levels of any size.  Python's int is unbounded: here a number is  *)
(* the sequence of its binary digits, the least significant first, with no *)
(* leading zero (the empty sequence is 0).                                 *)
(***************************************************************************)
RECURSIVE Bits(_)
Bits(n) == IF n = 0 THEN <<>> ELSE <<n % 2>> \o Bits(n \div 2)

RECURSIVE Trim(_)
Trim(a) ==
    IF a # <<>> /\ a[Len(a)] = 0 THEN Trim(SubSeq(a, 1, Len(a) - 1)) ELSE a

Zeros(k) == [i \in 1..k |-> 0]

\* 2^k * a
Shift(a, k) == IF a = <<>> THEN <<>> ELSE Zeros(k) \o a

RECURSIVE AddCarry(_, _, _)
AddCarry(a, b, carry) ==
    IF a = <<>> /\ b = <<>>
    THEN (IF carry = 1 THEN <<1>> ELSE <<>>)
    ELSE LET x == IF a = <<>> THEN 0 ELSE Head(a)
             y == IF b = <<>> THEN 0 ELSE Head(b)
             rest_a == IF a = <<>> THEN <<>> ELSE Tail(a)
             rest_b == IF b = <<>> THEN <<>> ELSE Tail(b)
         IN  <<(x + y + carry) % 2>>
                 \o AddCarry(rest_a, rest_b, (x + y + carry) \div 2)

\* a + b
Add(a, b) == AddCarry(a, b, 0)

RECURSIVE MulFrom(_, _, _, _)
\* partial + a * (the digits of b from position from on)
MulFrom(a, b, from, partial) ==
    IF from > Len(b) THEN partial
    ELSE MulFrom(a, b, from + 1,
                 IF b[from] = 1 THEN Add(partial, Shift(a, from - 1))
                 ELSE partial)

\* a * b
Mul(a, b) == MulFrom(a, b, 1, <<>>)

RECURSIVE Remainder(_, _, _)
\* what is left of the digits of a above position from, divided by d
Remainder(a, from, d) ==
    IF from >= Len(a) THEN 0
    ELSE (2 * Remainder(a, from + 1, d) + a[from + 1]) % d

\* a // d and a % d for a small d > 0, by long division from the most
\* significant digit; the quotient may have leading zeros
DivMod(a, d) ==
    [quotient |-> [i \in 1..Len(a) |->
                      (2 * Remainder(a, i, d) + a[i]) \div d],
     remainder |-> Remainder(a, 0, d)]

\* the bits of the significand of a Python float
Mantissa == 53

\* int(item / 3): item / 3 is the float nearest to the quotient (ties to
\* the even significand) and int() drops its fraction.  A quotient of
\* fewer than Mantissa bits is rounded in its fraction only, and never up
\* to the next integer; a longer one loses its low bits.  The quotient stays
\* below 2^1024, where the division raises OverflowError.
true_divide_by_3(item) ==
    LET division == DivMod(item, 3)
        quotient == Trim(division.quotient)
        dropped == Len(quotient) - Mantissa
        kept == SubSeq(quotient, dropped + 1, Len(quotient))
        low == SubSeq(quotient, 1, dropped)
        sticky == division.remainder > 0
                  \/ \E i \in 1..(dropped - 1) : low[i] = 1
        up == IF dropped = 0 THEN division.remainder = 2
              ELSE low[dropped] = 1 /\ (sticky \/ kept[1] = 1)
    IN  IF dropped < 0 THEN quotient
        ELSE Zeros(dropped) \o (IF up THEN Add(kept, <<1>>) ELSE kept)

(***************************************************************************)
(* Monkey._inspect on one item, statement by statement.                    *)
(***************************************************************************)
\* the longest number an operation may produce, in binary digits
MaxBits == 64

\* 3 * 2^52: the least item whose third has no room for a fraction
Threshold == Shift(Bits(3), Mantissa - 1)

\* small worry levels, worry levels whose square is about 2 * Threshold,
\* and worry levels of about Threshold, 2 * Threshold and 4 * Threshold
OldValues ==
    {Bits(n) : n \in 0..12}
    \cup {Add(Shift(Bits(5), 25), Bits(n)) : n \in 0..6}
    \cup {Add(Shift(Threshold, k), Bits(n)) : k \in 0..2, n \in 0..6}

\* <<operator, second operand>>: 'old' or an integer
Operations ==
    {<<"+", Old>>, <<"*", Old>>, <<"+", str(2)>>, <<"*", str(1)>>,
     <<"*", str(19)>>}

Divisors == {2, 23}

\* the result of the operation has at most MaxBits digits
WithinBits(old, op) ==
    LET operand == IF op[2] = Old THEN old ELSE Bits(int(op[2]))
    IN  IF op[1] = "+" THEN Len(old) < MaxBits /\ Len(operand) < MaxBits
        ELSE Len(old) + Len(operand) <= MaxBits

InspectionInit ==
    /\ Day11Idle
    /\ interpreter = Idle
    /\ \E old \in OldValues, op \in Operations, d \in Divisors :
          /\ WithinBits(old, op)
          /\ inspection = [pc |-> "operation", old |-> old,
                           operator |-> op[1], operand |-> op[2],
                           divisor |-> d, item |-> old,
                           test_passed |-> FALSE]
    /\ day04 = Idle
    /\ day05 = Idle
    /\ day06 = Idle
    /\ day1 = Idle

\* the closure _get_operation returned, on numbers of any size
big_operation(m, old_value) ==
    LET operand == IF m.operand = Old THEN old_value ELSE Bits(int(m.operand))
    IN  IF m.operator = "+" THEN Add(old_value, operand)
        ELSE Mul(old_value, operand)

\* item = self._operation(item)
InspectOperation ==
    /\ inspection.pc = "operation"
    /\ inspection' = [inspection EXCEPT
                         !.pc = "relief",
                         !.item = big_operation(inspection, inspection.item)]
    /\ UNCHANGED <<vars, interpreter, day04, day05, day06, day1>>

\* item = Item(item/3)
InspectRelief ==
    /\ inspection.pc = "relief"
    /\ inspection' = [inspection EXCEPT
                         !.pc = "test",
                         !.item = true_divide_by_3(inspection.item)]
    /\ UNCHANGED <<vars, interpreter, day04, day05, day06, day1>>

\* test_passed = self._test(item)
InspectTest ==
    /\ inspection.pc = "test"
    /\ inspection' = [inspection EXCEPT
                         !.pc = "throw",
                         !.test_passed =
                             DivMod(inspection.item,
                                    inspection.divisor).remainder = 0]
    /\ UNCHANGED <<vars, interpreter, day04, day05, day06, day1>>

InspectionNext ==
    \/ InspectOperation
    \/ InspectRelief
    \/ InspectTest

InspectionSpec == InspectionInit /\ [][InspectionNext]_<<vars, others>>

(***************************************************************************)
(* C15: every worry level stored after an inspection is a non-negative     *)
(* integer equal to floor(operation(old) / 3), for every non-negative old  *)
(* value and every parsed operation.                                       *)
(***************************************************************************)
floor_divide_by_3(item) == Trim(DivMod(item, 3).quotient)

C15_FloorDivision ==
    inspection.pc \in {"test", "throw"} =>
        inspection.item =
            floor_divide_by_3(big_operation(inspection, inspection.old))

(***************************************************************************)
(* Day 4 (src/day04/main.py): two elves and the three questions asked of   *)
(* a pair.                                                                 *)
(***************************************************************************)
MaxSection == 3        \* section IDs are 0..MaxSection

Elf(low, high) == [low |-> low, high |-> high]

Elves ==
    {Elf(low, high) : low \in 0..MaxSection, high \in 0..MaxSection}

\* [SectionID(i) for i in range(self._low, self._high + 1)]
range(elf) ==
    IF elf.high < elf.low THEN <<>>
    ELSE [i \in 1..(elf.high - elf.low + 1) |-> elf.low + i - 1]

\* x in a_list
In(x, list) == \E j \in 1..Len(list) : list[j] = x

\* all([x in other.range for x in self.range])
contains(self, other) ==
    \A k \in 1..Len(range(self)) : In(range(self)[k], range(other))

completely_overlaps(self, other) ==
    contains(self, other) \/ contains(other, self)

\* any([x in other.range for x in self.range])
overlaps_at_all(self, other) ==
    \E k \in 1..Len(range(self)) : In(range(self)[k], range(other))

Day04Init ==
    /\ Day11Idle
    /\ interpreter = Idle
    /\ inspection = Idle
    /\ \E self \in Elves, other \in Elves :
          /\ self.low <= self.high
          /\ other.low <= other.high
          /\ day04 = [pc |-> "pair", self |-> self, other |-> other,
                      method |-> "none", returned |-> FALSE]
    /\ day05 = Idle
    /\ day06 = Idle
    /\ day1 = Idle

Returns(method, value) ==
    day04' = [day04 EXCEPT !.pc = "returned", !.method = method,
                           !.returned = value]

Contains ==
    /\ day04.pc = "pair"
    /\ Returns("contains", contains(day04.self, day04.other))
    /\ UNCHANGED <<vars, interpreter, inspection, day05, day06, day1>>

CompletelyOverlaps ==
    /\ day04.pc = "pair"
    /\ Returns("completely_overlaps",
               completely_overlaps(day04.self, day04.other))
    /\ UNCHANGED <<vars, interpreter, inspection, day05, day06, day1>>

OverlapsAtAll ==
    /\ day04.pc = "pair"
    /\ Returns("overlaps_at_all", overlaps_at_all(day04.self, day04.other))
    /\ UNCHANGED <<vars, interpreter, inspection, day05, day06, day1>>

Day04Next ==
    \/ Contains
    \/ CompletelyOverlaps
    \/ OverlapsAtAll

Day04Spec == Day04Init /\ [][Day04Next]_<<vars, others>>

(***************************************************************************)
(* C16: Elf.contains(other) returns true exactly when this elf's range     *)
(* completely contains the other elf's: every section of other's range is  *)
(* a section of self's range.                                              *)
(***************************************************************************)
Sections(elf) == elf.low..elf.high

C16_Contains ==
    (day04.pc = "returned" /\ day04.method = "contains") =>
        (day04.returned <=> Sections(day04.other) \subseteq Sections(day04.self))

(***************************************************************************)
(* Day 5 (src/day05/main.py): a crane, its stacks (each a list of crates   *)
(* from bottom to top) and the procedure, whose lines are read one by one. *)
(***************************************************************************)
MaxStacks == 2         \* stacks of the crane
MaxCrates == 3         \* crates on the stacks
MaxMoves == 3          \* instruction lines of the procedure

CrateNames == <<"A", "B", "C", "D", "E", "F">>

\* the stacks that hold crate i on stack placing[i], in the order of the names
StacksOf(placing) ==
    [k \in 1..MaxStacks |->
        SelectSeq(SubSeq(CrateNames, 1, MaxCrates),
                  LAMBDA crate :
                      \E i \in 1..MaxCrates :
                          CrateNames[i] = crate /\ placing[i] = k)]

InitialStacks == {StacksOf(placing) : placing \in [1..MaxCrates -> 1..MaxStacks]}

\* self._crates[-quantity:] : the slice from index -quantity, which for
\* quantity = 0 is index 0; an index before the start counts as the start
slice_from_minus(crates, quantity) ==
    IF quantity = 0 \/ quantity > Len(crates) THEN crates
    ELSE SubSeq(crates, Len(crates) - quantity + 1, Len(crates))

\* self._crates[:-quantity] : the slice up to index -quantity
slice_to_minus(crates, quantity) ==
    IF quantity = 0 \/ quantity > Len(crates) THEN <<>>
    ELSE SubSeq(crates, 1, Len(crates) - quantity)

\* Stack.pop_multiple, then Stack.extend on the destination
move_crates_together(stacks, from_stack, to_stack, quantity) ==
    LET crates == slice_from_minus(stacks[from_stack], quantity)
        popped == [stacks EXCEPT ![from_stack] = slice_to_minus(@, quantity)]
    IN  [popped EXCEPT ![to_stack] = @ \o crates]

\* Crane.move_crate: Stack.pop, then Stack.append on the destination
move_crate(stacks, from_stack, to_stack) ==
    LET crate == stacks[from_stack][Len(stacks[from_stack])]
        popped == [stacks EXCEPT
                      ![from_stack] = SubSeq(@, 1, Len(@) - 1)]
    IN  [popped EXCEPT ![to_stack] = Append(@, crate)]

\* self._stacks[stack_number - 1]
get_stack(stacks, stack_number) == list_index(Len(stacks), stack_number - 1)

Day05Init ==
    /\ Day11Idle
    /\ interpreter = Idle
    /\ inspection = Idle
    /\ day04 = Idle
    /\ \E stacks \in InitialStacks, move_together \in BOOLEAN :
          day05 = [pc |-> "perform_procedure", stacks |-> stacks,
                   move_together |-> move_together, line |-> 0,
                   quantity |-> 0, from_stack |-> 0, to_stack |-> 0,
                   moved |-> 0, err |-> "none", message |-> <<>>,
                   start |-> stacks, before |-> stacks, within |-> TRUE]
    /\ day06 = Idle
    /\ day1 = Idle

\* the next line 'move <quantity> from <from> to <to>' is read and its stacks
\* are looked up; with move_together the crates move at once.  History: start
\* is the stacks the crane was built with, before the stacks when the line
\* was read, within whether every line so far asked for no more crates than
\* its source stack held.
ReadMove ==
    /\ day05.pc = "perform_procedure"
    /\ day05.line < MaxMoves
    /\ \E quantity \in 0..MaxCrates, from \in 0..(MaxStacks + 1),
          to \in 0..(MaxStacks + 1) :
          LET from_stack == get_stack(day05.stacks, from)
              to_stack == get_stack(day05.stacks, to)
              read == [day05 EXCEPT
                          !.line = @ + 1, !.quantity = quantity,
                          !.from_stack = from_stack,
                          !.to_stack = to_stack, !.moved = 0,
                          !.before = day05.stacks,
                          !.within =
                              /\ @
                              /\ from_stack > 0
                              /\ quantity <= Len(day05.stacks[from_stack])]
          IN  IF from_stack = 0 \/ to_stack = 0
              THEN day05' = [read EXCEPT !.pc = "raised",
                                         !.err = "IndexError"]
              ELSE IF day05.move_together
              THEN day05' = [read EXCEPT !.stacks =
                                move_crates_together(day05.stacks, from_stack,
                                                     to_stack, quantity)]
              ELSE day05' = [read EXCEPT !.pc = "move_crate"]
    /\ UNCHANGED <<vars, interpreter, inspection, day04, day06, day1>>

\* for _ in range(quantity): self.move_crate(from_stack, to_stack)
MoveCrate ==
    /\ day05.pc = "move_crate"
    /\ IF day05.moved >= day05.quantity
       THEN day05' = [day05 EXCEPT !.pc = "perform_procedure"]
       ELSE IF day05.stacks[day05.from_stack] = <<>>
       THEN day05' = [day05 EXCEPT !.pc = "raised", !.err = "IndexError"]
       ELSE day05' = [day05 EXCEPT
                         !.moved = @ + 1,
                         !.stacks = move_crate(day05.stacks, day05.from_stack,
                                               day05.to_stack)]
    /\ UNCHANGED <<vars, interpreter, inspection, day04, day06, day1>>

\* Crane.read_stacks after the last line: every stack is popped in turn,
\* up to the first empty one
ReadStacks ==
    /\ day05.pc = "perform_procedure"
    /\ LET empty == {k \in 1..Len(day05.stacks) : day05.stacks[k] = <<>>}
           popped == [k \in 1..Len(day05.stacks) |->
                         IF \E e \in empty : e <= k THEN day05.stacks[k]
                         ELSE SubSeq(day05.stacks[k], 1,
                                     Len(day05.stacks[k]) - 1)]
       IN  IF empty # {}
           THEN day05' = [day05 EXCEPT !.pc = "raised", !.err = "IndexError",
                                       !.stacks = popped]
           ELSE day05' = [day05 EXCEPT
                             !.pc = "returned",
                             !.stacks = popped,
                             !.message = [k \in 1..Len(day05.stacks) |->
                                 day05.stacks[k][Len(day05.stacks[k])]]]
    /\ UNCHANGED <<vars, interpreter, inspection, day04, day06, day1>>

Day05Next ==
    \/ ReadMove
    \/ MoveCrate
    \/ ReadStacks

Day05Spec == Day05Init /\ [][Day05Next]_<<vars, others>>

(***************************************************************************)
(* C17: for every source stack and every quantity q with 0 <= q <= size of *)
(* the source, Crane.move_crates_together removes exactly the top q crates *)
(* from the source and puts them on top of the destination in the order    *)
(* they had, leaving the rest of the source and the previous content of    *)
(* the destination in place.                                               *)
(***************************************************************************)
\* a line has just been carried out by move_crates_together
MovedTogether ==
    /\ day05.pc = "perform_procedure"
    /\ day05.move_together
    /\ day05'.pc = "perform_procedure"
    /\ day05'.line = day05.line + 1

C17_MoveTogether ==
    [][MovedTogether =>
          LET source == day05.stacks[day05'.from_stack]
              q == day05'.quantity
              rest == SubSeq(source, 1, Len(source) - q)
              top == SubSeq(source, Len(source) - q + 1, Len(source))
              before == [day05.stacks EXCEPT ![day05'.from_stack] = rest]
          IN  q <= Len(source) =>
                  day05'.stacks =
                      [before EXCEPT ![day05'.to_stack] = @ \o top]
      ]_<<vars, others>>

(***************************************************************************)
(* Day 6 (src/day06/main.py): the scan of a datastream for the first       *)
(* packet of distinct characters.                                          *)
(***************************************************************************)
MaxStream == 4         \* characters of the datastream
MaxPacket == 3         \* packet_length

Alphabet == {"a", "b", "c"}

Datastreams == UNION {[1..n -> Alphabet] : n \in 0..MaxStream}

\* a_string[from:to], for 0 <= from <= to <= len(a_string)
Slice(text, from, to) == SubSeq(text, from + 1, to)

Max(a, b) == IF a >= b THEN a ELSE b

\* Datastream.get_packet_at_position; position <= len(self) where called
get_packet_at_position(datastream, position, length) ==
    Slice(datastream, Max(position - length, 0), position)

\* len(self) == len(set(self))
are_all_chars_unique(packet) ==
    Len(packet) = Cardinality({packet[i] : i \in 1..Len(packet)})

Day06Init ==
    /\ Day11Idle
    /\ interpreter = Idle
    /\ inspection = Idle
    /\ day04 = Idle
    /\ day05 = Idle
    /\ \E datastream \in Datastreams, packet_length \in 1..MaxPacket :
          day06 = [pc |-> "main", datastream |-> datastream,
                   packet_length |-> packet_length, position |-> 0,
                   returned |-> -1, err |-> "none"]
    /\ day1 = Idle

\* one iteration of: for position in range(len(datastream))
Scan ==
    /\ day06.pc = "main"
    /\ day06.position < Len(day06.datastream)
    /\ LET packet == get_packet_at_position(day06.datastream, day06.position,
                                            day06.packet_length)
       IN  IF Len(packet) = day06.packet_length
              /\ are_all_chars_unique(packet)
           THEN day06' = [day06 EXCEPT !.pc = "returned",
                                       !.returned = day06.position]
           ELSE day06' = [day06 EXCEPT !.position = @ + 1]
    /\ UNCHANGED <<vars, interpreter, inspection, day04, day05, day1>>

\* the range is exhausted: raise ValueError
NoMarker ==
    /\ day06.pc = "main"
    /\ day06.position >= Len(day06.datastream)
    /\ day06' = [day06 EXCEPT !.pc = "raised", !.err = "ValueError"]
    /\ UNCHANGED <<vars, interpreter, inspection, day04, day05, day1>>

Day06Next ==
    \/ Scan
    \/ NoMarker

Day06Spec == Day06Init /\ [][Day06Next]_<<vars, others>>

(***************************************************************************)
(* C18: for every datastream that contains a window of packet_length       *)
(* pairwise distinct consecutive characters, main returns the smallest     *)
(* position p such that the packet_length characters ending at p are all   *)
(* distinct, also when the only such window ends at the last character;    *)
(* ValueError is raised only when no such window exists.                   *)
(***************************************************************************)
\* the packet_length characters that end at position p are all distinct
Marker(p) ==
    /\ day06.packet_length <= p
    /\ p <= Len(day06.datastream)
    /\ \A i, j \in (p - day06.packet_length + 1)..p :
          i # j => day06.datastream[i] # day06.datastream[j]

C18_FirstMarker ==
    /\ day06.pc = "returned" =>
          /\ Marker(day06.returned)
          /\ \A p \in 0..(day06.returned - 1) : ~Marker(p)
    /\ day06.pc = "raised" =>
          \A p \in 0..Len(day06.datastream) : ~Marker(p)

(***************************************************************************)
(* Day 1 (src/day1/main.py): a collection of elves, each carrying foods,   *)
(* and the elves with the most calories.                                   *)
(***************************************************************************)
MaxElves == 3          \* elves of the collection
MaxCalories == 3       \* calories of one food

\* Elf(foods): the calories of the one or two foods carried
FoodLists ==
    {<<c>> : c \in 1..MaxCalories} \cup {<<1, c>> : c \in 1..2}

MultipleElves == UNION {[1..n -> FoodLists] : n \in 0..MaxElves}

\* Elf.get_total_calories, which Elf.read_total_calories returns
get_total_calories(elf) == sum(elf)

RECURSIVE insert_by_calories(_, _)
\* the place sorted() gives an elf: behind the elves that carry no more
insert_by_calories(elves, elf) ==
    IF elves = <<>> THEN <<elf>>
    ELSE IF get_total_calories(elf) >= get_total_calories(elves[Len(elves)])
    THEN Append(elves, elf)
    ELSE Append(insert_by_calories(SubSeq(elves, 1, Len(elves) - 1), elf),
                elves[Len(elves)])

RECURSIVE get_elves_sorted_by_calories(_)
\* sorted(self._elves, key=Elf.read_total_calories)
get_elves_sorted_by_calories(elves) ==
    IF elves = <<>> THEN <<>>
    ELSE insert_by_calories(
             get_elves_sorted_by_calories(SubSeq(elves, 1, Len(elves) - 1)),
             elves[Len(elves)])

\* self._get_elves_sorted_by_calories()[-num_elves:]
get_n_elves_with_most_calories(elves, num_elves) ==
    slice_from_minus(get_elves_sorted_by_calories(elves), num_elves)

Day1Init ==
    /\ Day11Idle
    /\ interpreter = Idle
    /\ inspection = Idle
    /\ day04 = Idle
    /\ day05 = Idle
    /\ day06 = Idle
    /\ \E elves \in MultipleElves :
          day1 = [pc |-> "solve", elves |-> elves, method |-> "none",
                  num_elves |-> 0, returned |-> <<>>, err |-> "none"]

\* MultipleElves.get_elf_with_most_calories
GetElfWithMostCalories ==
    /\ day1.pc = "solve"
    /\ LET sorted == get_elves_sorted_by_calories(day1.elves)
           last == list_index(Len(sorted), -1)
       IN  IF last = 0
           THEN day1' = [day1 EXCEPT !.pc = "raised", !.err = "IndexError",
                                     !.method = "get_elf_with_most_calories"]
           ELSE day1' = [day1 EXCEPT !.pc = "returned",
                                     !.method = "get_elf_with_most_calories",
                                     !.returned = <<sorted[last]>>]
    /\ UNCHANGED <<vars, interpreter, inspection, day04, day05, day06>>

\* MultipleElves.get_n_elves_with_most_calories(num_elves)
GetNElvesWithMostCalories ==
    /\ day1.pc = "solve"
    /\ \E num_elves \in 0..MaxElves :
          day1' = [day1 EXCEPT
                      !.pc = "returned",
                      !.method = "get_n_elves_with_most_calories",
                      !.num_elves = num_elves,
                      !.returned = get_n_elves_with_most_calories(day1.elves,
                                                                  num_elves)]
    /\ UNCHANGED <<vars, interpreter, inspection, day04, day05, day06>>

Day1Next ==
    \/ GetElfWithMostCalories
    \/ GetNElvesWithMostCalories

Day1Spec == Day1Init /\ [][Day1Next]_<<vars, others>>

(***************************************************************************)
(* C19: for every collection of elves and every n with 0 <= n <= number of *)
(* elves, get_n_elves_with_most_calories(n) returns a collection of        *)
(* exactly n elves, each carrying at least as many total calories as every *)
(* elf left out.                                                           *)
(***************************************************************************)
\* the returned list holds the elves at the positions chosen, each once
Holds(returned, elves, chosen) ==
    \E place \in [1..Len(returned) -> chosen] :
        /\ \A a, b \in 1..Len(returned) : a # b => place[a] # place[b]
        /\ \A a \in 1..Len(returned) : returned[a] = elves[place[a]]

C19_MostCalories ==
    (/\ day1.pc = "returned"
     /\ day1.method = "get_n_elves_with_most_calories"
     /\ day1.num_elves <= Len(day1.elves))
    => /\ Len(day1.returned) = day1.num_elves
       /\ \E chosen \in SUBSET (1..Len(day1.elves)) :
             /\ Cardinality(chosen) = day1.num_elves
             /\ Holds(day1.returned, day1.elves, chosen)
             /\ \A i \in chosen, j \in (1..Len(day1.elves)) \ chosen :
                   sum(day1.elves[i]) >= sum(day1.elves[j])

(***************************************************************************)
(* C21: item conservation.  In a club whose destinations are all valid     *)
(* indices, the number of items held over all monkeys is the same after    *)
(* every Monkey.execute_round and after every MonkeyClub.execute_round as  *)
(* it was at the start: no turn creates, duplicates or loses an item, a    *)
(* turn of a monkey that throws to itself included.                        *)
(***************************************************************************)
\* the items the file gives one club
StartingHeld == sum([k \in 1..Len(file_chunks) |-> Len(file_chunks[k].items)])

\* no Monkey.execute_round is under way: the club has just been built, a
\* turn or a round has just ended, or part1 has returned
BetweenTurns ==
    /\ club > 0
    /\ \/ pc \in {"part1", "main"}
       \/ pc = "execute_round" /\ pos = 1

\* some monkey has itself as a destination
SelfDestination ==
    \E k \in Positions :
        \/ monkeys[k].true_destination = k - 1
        \/ monkeys[k].false_destination = k - 1

C21_ItemConservation ==
    (ValidDestinations /\ BetweenTurns) => Held(monkeys) = club * StartingHeld

\* the first monkey of the first club has ended a turn in which it
\* inspected more items than it held: some went to itself first
C21_Witness ==
    /\ ValidDestinations
    /\ BetweenTurns
    /\ club = 1
    /\ executed = 1
    /\ pc = "execute_round"
    /\ turn = 2
    /\ monkeys[1].inspections_count > Len(file_chunks[1].items)
    /\ Held(monkeys) > 0

(***************************************************************************)
(* C22: in a club of N monkeys holding K items in total, where no monkey   *)
(* has itself as a destination, one MonkeyClub.execute_round raises the    *)
(* sum of all inspection counts by at least K and at most N * K: every     *)
(* item is inspected at least once in the round and at most once by each   *)
(* monkey.                                                                 *)
(***************************************************************************)
\* the inspections counted since the round was begun
InspectedInRound == sum(inspections_per_monkey(monkeys)) - begun.count

C22_InspectionsPerRound ==
    (RoundEnded /\ ~SelfDestination) =>
        /\ begun.held <= InspectedInRound
        /\ InspectedInRound <= Len(monkeys) * begun.held

\* a round has ended in which some item, and not every item, was inspected
\* by more than one monkey
C22_Witness ==
    /\ RoundEnded
    /\ ~SelfDestination
    /\ Len(monkeys) >= 2
    /\ begun.held > 0
    /\ begun.held < InspectedInRound
    /\ InspectedInRound < Len(monkeys) * begun.held

(***************************************************************************)
(* C23: day 5 crate conservation.  After Crane.perform_procedure over any  *)
(* sequence of 'move q from a to b' lines with q no larger than the source *)
(* stack at that step, in single-crate mode and in move-together mode, the *)
(* multiset of crates over all stacks equals the initial multiset, and     *)
(* each single stack differs from the move-together result only in the     *)
(* order of the crates moved by one instruction (single-crate mode         *)
(* reverses them).                                                         *)
(***************************************************************************)
\* how often the crate lies on the stacks
Occurrences(stacks, crate) ==
    sum([k \in 1..Len(stacks) |->
            Len(SelectSeq(stacks[k], LAMBDA c : c = crate))])

SameCrates(stacks, others_stacks) ==
    \A i \in 1..Len(CrateNames) :
        Occurrences(stacks, CrateNames[i]) =
            Occurrences(others_stacks, CrateNames[i])

Reverse(crates) == [i \in 1..Len(crates) |-> crates[Len(crates) + 1 - i]]

\* the stacks with the top quantity crates of the destination in reverse
\* order; a move of a stack onto itself leaves the order as it is
TopReversed(stacks, from_stack, to_stack, quantity) ==
    IF from_stack = to_stack THEN stacks
    ELSE [stacks EXCEPT ![to_stack] =
             SubSeq(@, 1, Len(@) - quantity)
                 \o Reverse(SubSeq(@, Len(@) - quantity + 1, Len(@)))]

\* some lines have been carried out, none asking for more than its source
LinesDone ==
    /\ day05.pc = "perform_procedure"
    /\ day05.line > 0
    /\ day05.within

C23_CrateConservation ==
    LinesDone =>
        /\ SameCrates(day05.stacks, day05.start)
        /\ ~day05.move_together =>
               day05.stacks =
                   TopReversed(move_crates_together(day05.before,
                                                    day05.from_stack,
                                                    day05.to_stack,
                                                    day05.quantity),
                               day05.from_stack, day05.to_stack,
                               day05.quantity)

====
